---- MODULE Spec2Model ----
(***************************************************************************)
(* Model of migrate.py: the migration driver (main), the gap filler        *)
(* (fill_gaps), the paginated source reader (get_issues), the milestone    *)
(* registry (GithubMilestones), the submitter (push_github_issue) and the  *)
(* status poller (verify_github_issue_import_finished), together with the  *)
(* target tracker's background import jobs.                                *)
(***************************************************************************)
EXTENDS Integers, Sequences, FiniteSets, TLC

\* ---------------------------------------------------------------- bounds
MaxId == 3          \* largest source issue identifier
MaxSkip == 1        \* largest value of --skip
MaxPolls == 2       \* how many times the target answers 'pending' per job
PageLen == 2        \* issues per page of the source API
MaxQuirks == 1      \* how many times the target answers 403/404 on a status URL

\* ------------------------------------------------------- value universes
Titles == {"v1"}
NoMilestone == "none"

GetIssuesCodes == {200, 404}
CommentsCodes == {200, 404}
ChangesCodes == {200, 500, 404}
MilestoneCodes == {201, 422}
PushCodes == {202, 422, 500}
StatusQuirkCodes == {403, 404}

VARIABLES
    options,          \* [dry_run, debug, skip]: the parsed command line
    bb_issues,        \* the issues the source API lists, in the order it returns them
    gen,              \* state of the generators fill_gaps(get_issues(...))
    pc,               \* main's position: "next", "push", "poll", "done", "aborted"
    index,            \* enumerate() index of the current issue
    issue,            \* the current (possibly placeholder) issue
    gh_issue,         \* the converted issue
    status_url,       \* the import job the status URL names (0: none)
    polls,            \* status GETs sent for the current status URL
    printed,          \* converted issues pretty-printed so far
    reports,          \* progress lines printed so far
    exit_code,        \* -1 while running, then the process exit code
    error,            \* why the run aborted ("" when it did not)
    title_to_number,  \* GithubMilestones.title_to_number (0: no entry)
    gh_initial,       \* issues the target tracker held at start
    gh_issues,        \* target tracker: gh_issues[g] = source id imported as #g (0: pre-existing)
    imports,          \* target tracker: the import jobs, in order of acceptance
    gh_milestones,    \* target tracker: milestone titles, number = position
    gh_milestones0,   \* the target's milestones at start
    emitted,          \* history: the issues fill_gaps yielded
    obtained,         \* history: per completed issue, the target id read back (0: none)
    import_posts,     \* history: import POSTs sent
    milestone_posts,  \* history: milestone-creation POSTs sent
    last_push,        \* history: status code of the last import POST (0: none)
    last_resp,        \* history: the last status-URL response
    quirks,           \* history: 403/404 answers the status URLs gave
    users,            \* options.users: username -> GitHub name, NoUser (None) or NoKey
    calls,            \* history: the calls made to a component checked on its own
    arg,              \* the input of a conversion function checked on its own
    result,           \* its output (NotApplied before the call)
    restarts          \* history: how often the run was interrupted and started again

vars == <<options, bb_issues, gen, pc, index, issue, gh_issue, status_url, polls,
          printed, reports, exit_code, error, title_to_number, gh_initial,
          gh_issues, imports, gh_milestones, gh_milestones0, emitted, obtained,
          import_posts, milestone_posts, last_push, last_resp, quirks,
          users, calls, arg, result, restarts>>

driverVars == <<index, issue, gh_issue, status_url, polls, printed, reports,
                title_to_number, emitted, obtained, import_posts,
                milestone_posts, last_push, last_resp, quirks, gen>>

\* --------------------------------------------------------------- helpers
Max(S) == CHOOSE m \in S : \A n \in S : n <= m

Ids(s) == {s[k].id : k \in 1..Len(s)}

StrictlyIncreasing(s) == \A j, k \in 1..Len(s) : j < k => s[j].id < s[k].id

\* All strictly increasing issue lists over the identifiers skip+1 .. MaxId.
RECURSIVE SortedLists(_, _)
SortedLists(lo, hi) ==
    IF lo > hi THEN {<<>>}
    ELSE LET rest == SortedLists(lo + 1, hi)
         IN rest \cup
            {<<[id |-> lo]>> \o r : r \in rest}

NoIssue == [id |-> 0, dummy |-> FALSE]
NoResp == [code |-> 0, status |-> "", gh_id |-> 0]

\* class DummyIssue(dict): carries only the identifier
DummyIssue(num) == [id |-> num, dummy |-> TRUE]

\* an issue of the source; main reads only its 'id' after the conversion
RealIssue(rec) == [id |-> rec.id, dummy |-> FALSE]

\* GithubMilestones.load over the titles T: title -> number of every
\* milestone on the target (0: the dict has no such key)
LoadFrom(T, ms) ==
    [t \in T |->
        IF \E n \in 1..Len(ms) : ms[n] = t
        THEN CHOOSE n \in 1..Len(ms) : ms[n] = t
        ELSE 0]

\* GithubMilestones.load: title -> number of every milestone on the target
Load(ms) == LoadFrom(Titles, ms)

NotApplied == [kind |-> "not applied"]
NoArg == [fn |-> "none"]
NoKey == "<no key>"
NoUser == "<None>"

\* the components checked on their own are idle during a run of main
UnitIdle ==
    /\ users = <<>>
    /\ calls = <<>>
    /\ arg = NoArg
    /\ result = NotApplied
    /\ restarts = 0

\* main is not running: no issue fetched, nothing sent, an empty target
DriverIdle ==
    /\ options = [dry_run |-> FALSE, debug |-> FALSE, skip |-> 0]
    /\ bb_issues = <<>>
    /\ gen = [pos |-> 0, current_id |-> 0, held |-> 0, dummy_id |-> 0]
    /\ pc = "next"
    /\ index = 0
    /\ issue = NoIssue
    /\ gh_issue = [dummy |-> FALSE, src |-> 0, milestone |-> 0]
    /\ status_url = 0
    /\ polls = 0
    /\ printed = <<>>
    /\ reports = <<>>
    /\ exit_code = -1
    /\ error = ""
    /\ gh_initial = 0
    /\ gh_issues = <<>>
    /\ imports = <<>>
    /\ gh_milestones0 = <<>>
    /\ gh_milestones = <<>>
    /\ title_to_number = Load(<<>>)
    /\ emitted = <<>>
    /\ obtained = <<>>
    /\ import_posts = 0
    /\ milestone_posts = 0
    /\ last_push = 0
    /\ last_resp = NoResp
    /\ quirks = 0

\* ------------------------------------------------------------------ Init
Init ==
    /\ UnitIdle
    \* --debug only adds the pretty-print to a live run; the runs here have it off
    /\ options \in [dry_run : BOOLEAN, debug : {FALSE}, skip : 0..MaxSkip]
    /\ bb_issues \in SortedLists(options.skip + 1, MaxId)
    /\ gen = [pos |-> 0, current_id |-> options.skip, held |-> 0, dummy_id |-> 0]
    /\ pc = "next"
    /\ index = 0
    /\ issue = NoIssue
    /\ gh_issue = [dummy |-> FALSE, src |-> 0, milestone |-> 0]
    /\ status_url = 0
    /\ polls = 0
    /\ printed = <<>>
    /\ reports = <<>>
    /\ exit_code = -1
    /\ error = ""
    /\ gh_initial \in 0..MaxSkip
    /\ gh_issues = [g \in 1..gh_initial |-> 0]
    /\ imports = <<>>
    /\ gh_milestones0 \in {<<>>} \cup {<<t>> : t \in Titles}
    /\ gh_milestones = gh_milestones0
    /\ title_to_number = Load(gh_milestones0)
    /\ emitted = <<>>
    /\ obtained = <<>>
    /\ import_posts = 0
    /\ milestone_posts = 0
    /\ last_push = 0
    /\ last_resp = NoResp
    /\ quirks = 0


\* ------------------------------------------------- get_issues / fill_gaps
\* get_issues sends a GET when it is resumed at a page boundary with a next_url:
\* the first page always, a later page when the previous one carried 'next'.
NeedsGet(g, issues) ==
    g.pos = 0 \/ (g.pos % PageLen = 0 /\ g.pos < Len(issues))

\* faulty variant of FillGapsYield: current_id is not advanced past the issue
FillGapsYield_stale(g, rec) ==
    IF g.dummy_id < rec.id
    THEN [out |-> DummyIssue(g.dummy_id),
          gen |-> [g EXCEPT !.dummy_id = @ + 1]]
    ELSE [out |-> RealIssue(rec),
          gen |-> [g EXCEPT !.held = 0]]

\* fill_gaps resumed while it holds issue rec: the rest of
\* range(current_id + 1, issue_id), then the issue itself.
FillGapsYield(g, rec) ==
    IF g.dummy_id < rec.id
    THEN [out |-> DummyIssue(g.dummy_id),
          gen |-> [g EXCEPT !.dummy_id = @ + 1]]
    ELSE [out |-> RealIssue(rec),
          gen |-> [g EXCEPT !.current_id = rec.id, !.held = 0]]

\* next(issues_iterator): what the chained generators do until the next yield,
\* code being the status of the page GET if one is sent.
IterNext(g, issues, code) ==
    IF g.held # 0
    THEN [kind |-> "yield"] @@ FillGapsYield(g, issues[g.held])
    ELSE IF NeedsGet(g, issues) /\ code # 200
    THEN [kind |-> "raise", out |-> NoIssue, gen |-> g]
    ELSE IF g.pos >= Len(issues)
    THEN [kind |-> "stop", out |-> NoIssue, gen |-> g]
    ELSE [kind |-> "yield"] @@
         FillGapsYield([g EXCEPT !.pos = @ + 1, !.held = g.pos + 1,
                                 !.dummy_id = g.current_id + 1],
                       issues[g.pos + 1])

\* -------------------------------------------------------- driver decisions
\* main: `if not options.dry_run:` guards the submission
Submits(opts) == ~opts.dry_run

\* main: `if options.dry_run or options.debug:` guards the pretty-print
Prints(opts) == opts.dry_run \/ opts.debug

\* faulty variant of ProgressReport: the zero-based index is printed
ProgressReport_index(idx) == <<"Completed", idx, "issues">>

\* main: print("Completed {} issues".format(index + 1))
ProgressReport(idx) == <<"Completed", idx + 1, "issues">>

\* faulty variant of IdsMatch: the assertion is compiled away
IdsMatch_off(gh_issue_id, issue_id) == TRUE

\* main: assert gh_issue_id == issue['id']
IdsMatch(gh_issue_id, issue_id) == gh_issue_id = issue_id

\* convert_issue: `if milestone and milestone['name']:`
HasMilestone(iss, milestone) == ~iss.dummy /\ milestone # NoMilestone

\* faulty variant of NeedsCreate: ensure never looks into its dict
NeedsCreate_always(t2n, title) == TRUE

\* GithubMilestones.ensure: `if number is None:` sends the creation POST
NeedsCreate(t2n, title) == t2n[title] = 0

\* get_issue_comments raises on every status but 200
CommentsRaise(code) == code # 200

\* faulty variant of ChangesRaise: a 500 is an error like any other
ChangesRaise_strict(code) == code # 200

\* get_issue_changes returns [] on 500 and raises on every other status but 200
ChangesRaise(code) == code # 500 /\ code # 200

\* faulty variant of PushOutcome: only server errors raise
PushOutcome_lax(code) == IF code < 500 THEN "return" ELSE "raise"

\* push_github_issue: returns the response on 202, raises otherwise
PushOutcome(code) == IF code = 202 THEN "return" ELSE "raise"

\* faulty variant of VerifyOutcome: 'pending' leaves the loop like any other status
VerifyOutcome_nowait(resp) ==
    IF resp.code \in {403, 404} THEN "none"
    ELSE IF resp.code # 200 THEN "raise"
    ELSE IF resp.status = "imported" THEN "resp"
    ELSE "raise"

\* faulty variant of VerifyOutcome: 'failed' is logged and the run goes on
VerifyOutcome_failok(resp) ==
    IF resp.code \in {403, 404} THEN "none"
    ELSE IF resp.code # 200 THEN "raise"
    ELSE IF resp.status = "pending" THEN "sleep"
    ELSE IF resp.status = "imported" THEN "resp"
    ELSE IF resp.status = "failed" THEN "none"
    ELSE "raise"

\* faulty variant of VerifyOutcome: only 404 is taken for the platform quirk
VerifyOutcome_strict(resp) ==
    IF resp.code = 404 THEN "none"
    ELSE IF resp.code # 200 THEN "raise"
    ELSE IF resp.status = "pending" THEN "sleep"
    ELSE IF resp.status = "imported" THEN "resp"
    ELSE "raise"

\* verify_github_issue_import_finished, one pass of its loop and what follows it
VerifyOutcome(resp) ==
    IF resp.code \in {403, 404} THEN "none"
    ELSE IF resp.code # 200 THEN "raise"
    ELSE IF resp.status = "pending" THEN "sleep"
    ELSE IF resp.status = "imported" THEN "resp"
    ELSE "raise"

\* ---------------------------------------------------------------- actions
Abort(why) ==
    /\ pc' = "aborted"
    /\ exit_code' = 1
    /\ error' = why

targetVars == <<gh_issues, imports, gh_milestones>>
\* the state of the components that are checked on their own
unitVars == <<users, calls, arg, result, restarts>>

fixedVars == <<options, bb_issues, gh_initial, gh_milestones0, unitVars>>

\* the for loop ends: main returns None and sys.exit(None) exits with 0
IterStop ==
    /\ pc = "next"
    /\ \E code \in GetIssuesCodes :
          IterNext(gen, bb_issues, code).kind = "stop"
    /\ pc' = "done"
    /\ exit_code' = 0
    /\ UNCHANGED <<error, driverVars, targetVars, fixedVars>>

\* get_issues raises RuntimeError on a page that is not 200
IterFail ==
    /\ pc = "next"
    /\ \E code \in GetIssuesCodes :
          IterNext(gen, bb_issues, code).kind = "raise"
    /\ Abort("get_issues")
    /\ UNCHANGED <<driverVars, targetVars, fixedVars>>

\* one pass of main's loop body up to the submission: the next issue, its
\* comments and changes, convert_issue (with GithubMilestones.ensure), the
\* pretty-print and, in a dry run, the progress line
NextIssue ==
    /\ pc = "next"
    /\ \E code \in GetIssuesCodes, cc \in CommentsCodes, hc \in ChangesCodes,
          mc \in MilestoneCodes, m \in Titles \cup {NoMilestone} :
        LET step == IterNext(gen, bb_issues, code)
            iss == step.out
            fetched == iss.dummy \/ (~CommentsRaise(cc) /\ ~ChangesRaise(hc))
            create == fetched /\ HasMilestone(iss, m)
                      /\ NeedsCreate(title_to_number, m)
            created == create /\ mc = 201
            number == IF ~HasMilestone(iss, m) THEN 0
                      ELSE IF created THEN Len(gh_milestones) + 1
                      ELSE title_to_number[m]
            converted == fetched /\ (create => created)
            payload == [dummy |-> iss.dummy, src |-> iss.id, milestone |-> number]
        IN  /\ step.kind = "yield"
            /\ gen' = step.gen
            /\ emitted' = Append(emitted, iss)
            /\ issue' = iss
            /\ index' = Len(emitted)
            /\ milestone_posts' = milestone_posts + (IF create THEN 1 ELSE 0)
            /\ gh_milestones' = IF created THEN Append(gh_milestones, m)
                                ELSE gh_milestones
            /\ title_to_number' = IF created
                                  THEN [title_to_number EXCEPT ![m] = number]
                                  ELSE title_to_number
            /\ IF ~fetched
               THEN /\ Abort(IF CommentsRaise(cc) THEN "get_issue_comments"
                             ELSE "get_issue_changes")
                    /\ UNCHANGED <<gh_issue, printed, reports>>
               ELSE IF ~converted
               THEN /\ Abort("milestone")
                    /\ UNCHANGED <<gh_issue, printed, reports>>
               ELSE /\ gh_issue' = payload
                    /\ printed' = IF Prints(options) THEN Append(printed, payload)
                                  ELSE printed
                    /\ IF Submits(options)
                       THEN /\ pc' = "push"
                            /\ UNCHANGED reports
                       ELSE /\ pc' = "next"
                            /\ reports' = Append(reports, ProgressReport(Len(emitted)))
                    /\ UNCHANGED <<exit_code, error>>
    /\ polls' = 0
    /\ last_resp' = NoResp
    /\ UNCHANGED <<status_url, obtained, import_posts, last_push, quirks,
                   gh_issues, imports, fixedVars>>

\* push_github_issue: the import POST; the target opens a job when it accepts
Push ==
    /\ pc = "push"
    /\ \E code \in PushCodes :
        /\ import_posts' = import_posts + 1
        /\ last_push' = code
        /\ IF code = 202
           THEN /\ imports' = Append(imports,
                        [src |-> gh_issue.src, status |-> "pending", gh_id |-> 0])
                /\ status_url' = Len(imports) + 1
           ELSE UNCHANGED <<imports, status_url>>
        /\ IF PushOutcome(code) = "return"
           THEN /\ pc' = "poll"
                /\ UNCHANGED <<exit_code, error>>
           ELSE Abort("push_github_issue")
    /\ UNCHANGED <<index, issue, gh_issue, polls, printed, reports, title_to_number,
                   emitted, obtained, milestone_posts, last_resp, quirks, gen,
                   gh_issues, gh_milestones, fixedVars>>

\* what a GET of the status URL of job can answer
StatusResponses(job, n, q) ==
    {[code |-> 500, status |-> "", gh_id |-> 0],
     [code |-> 200, status |-> "unexpected", gh_id |-> 0]}
    \cup (IF q >= MaxQuirks THEN {}
          ELSE {[code |-> c, status |-> "", gh_id |-> 0] : c \in StatusQuirkCodes})
    \cup (IF job.status = "pending" /\ n >= MaxPolls THEN {}
          ELSE {[code |-> 200, status |-> job.status, gh_id |-> job.gh_id]})

\* verify_github_issue_import_finished: one GET of the status URL, and when the
\* loop ends the rest of main's loop body (the assertion, the progress line)
Poll ==
    /\ pc = "poll"
    /\ status_url \in 1..Len(imports)
    /\ \E resp \in StatusResponses(imports[status_url], polls, quirks) :
        LET outcome == VerifyOutcome(resp)
            aligned == outcome = "resp" => IdsMatch(resp.gh_id, issue.id)
        IN  /\ polls' = polls + 1
            /\ last_resp' = resp
            /\ quirks' = quirks + (IF resp.code \in StatusQuirkCodes THEN 1 ELSE 0)
            /\ IF outcome = "sleep"
               THEN /\ pc' = "poll"
                    /\ UNCHANGED <<exit_code, error, reports, obtained>>
               ELSE IF outcome = "raise"
               THEN /\ Abort("verify_github_issue_import_finished")
                    /\ UNCHANGED <<reports, obtained>>
               ELSE IF ~aligned
               THEN /\ Abort("AssertionError")
                    /\ UNCHANGED <<reports, obtained>>
               ELSE /\ pc' = "next"
                    /\ reports' = Append(reports, ProgressReport(index))
                    /\ obtained' = Append(obtained,
                            IF outcome = "resp" THEN resp.gh_id ELSE 0)
                    /\ UNCHANGED <<exit_code, error>>
    /\ UNCHANGED <<index, issue, gh_issue, status_url, printed, title_to_number,
                   emitted, import_posts, milestone_posts, last_push, gen,
                   targetVars, fixedVars>>

\* the target finishes a pending import in the background: the new issue gets
\* the next free identifier
ImportFinish ==
    /\ \E k \in 1..Len(imports) :
        /\ imports[k].status = "pending"
        /\ gh_issues' = Append(gh_issues, imports[k].src)
        /\ imports' = [imports EXCEPT ![k].status = "imported",
                                      ![k].gh_id = Len(gh_issues) + 1]
    /\ UNCHANGED <<pc, exit_code, error, driverVars, gh_milestones, fixedVars>>

\* the target gives up on a pending import
ImportFail ==
    /\ \E k \in 1..Len(imports) :
        /\ imports[k].status = "pending"
        /\ imports' = [imports EXCEPT ![k].status = "failed"]
    /\ UNCHANGED <<pc, exit_code, error, driverVars, gh_issues, gh_milestones,
                   fixedVars>>

Next ==
    \/ IterStop
    \/ IterFail
    \/ NextIssue
    \/ Push
    \/ Poll
    \/ ImportFinish
    \/ ImportFail

Spec == Init /\ [][Next]_vars

\* ================================================================ claims
\* steps of the driver, recognised by the counters they advance
PollStep == pc = "poll" /\ polls' = polls + 1
PushStep == import_posts' = import_posts + 1
PendingAnswer(r) == r.code = 200 /\ r.status = "pending"

\* once the run has aborted the driver sends nothing more and reports nothing more
AbortIsFinal ==
    pc = "aborted" =>
        /\ pc' = "aborted"
        /\ import_posts' = import_posts
        /\ milestone_posts' = milestone_posts
        /\ polls' = polls
        /\ reports' = reports
        /\ emitted' = emitted

Pending == {k \in 1..Len(imports) : imports[k].status = "pending"}

\* C1: in a live run against a target that starts with exactly `skip` issues,
\* the N-th submitted issue is imported as #(skip+N), which is its source
\* identifier, and the alignment assertion never fails.
IdentifierAlignment ==
    (~options.dry_run /\ gh_initial = options.skip /\ StrictlyIncreasing(bb_issues)) =>
        /\ \A k \in 1..Len(imports) :
              imports[k].status = "imported" =>
                  /\ imports[k].gh_id = options.skip + k
                  /\ imports[k].gh_id = imports[k].src
        /\ error # "AssertionError"

\* C2: fill_gaps yields exactly skip+1 .. max(ids), ascending, each once; the
\* element for an identifier is the source issue when the source has that
\* identifier and a DummyIssue carrying it otherwise.
GapFilling ==
    StrictlyIncreasing(bb_issues) =>
        /\ \A k \in 1..Len(emitted) :
              /\ emitted[k].id = options.skip + k
              /\ emitted[k].dummy <=> emitted[k].id \notin Ids(bb_issues)
        /\ Len(emitted) <= (IF bb_issues = <<>> THEN 0
                            ELSE Max(Ids(bb_issues)) - options.skip)
        /\ pc = "done" =>
              Len(emitted) = (IF bb_issues = <<>> THEN 0
                              ELSE Max(Ids(bb_issues)) - options.skip)

GapFillingWitness ==
    /\ pc = "done"
    /\ Len(bb_issues) = 2
    /\ Len(emitted) = 3
    /\ emitted[2].dummy
    /\ ~emitted[3].dummy

\* C3: when the status check answers 'imported' with a target identifier that
\* differs from the issue's identifier the run aborts there: no progress line
\* for the issue, nothing submitted later; so every completed issue whose
\* target identifier was read back has the identifier of its source issue.
AlignmentCheckAborts ==
    /\ [][(PollStep /\ last_resp'.code = 200 /\ last_resp'.status = "imported"
             /\ last_resp'.gh_id # issue.id)
          => (pc' = "aborted" /\ exit_code' = 1 /\ reports' = reports
              /\ obtained' = obtained)]_vars
    /\ [][AbortIsFinal]_vars
    /\ [](\A k \in 1..Len(obtained) :
             obtained[k] # 0 => obtained[k] = emitted[k].id)

AlignmentCheckAbortsWitness ==
    /\ pc = "aborted"
    /\ error = "AssertionError"
    /\ last_resp.status = "imported"
    /\ last_resp.gh_id # issue.id

\* C4: in a live run at most one import is unresolved on the target at any
\* time, whatever the status URL answers.
StrictlySequential ==
    ~options.dry_run => Cardinality(Pending) <= 1

\* C5: a 200/'pending' answer always leads to another GET of the status URL
\* (the poller neither returns nor raises on it, however many came before);
\* any other answer ends the polling.
PollingProtocol ==
    [][PollStep =>
          /\ PendingAnswer(last_resp') =>
                (pc' = "poll" /\ exit_code' = -1 /\ status_url' = status_url)
          /\ ~PendingAnswer(last_resp') => pc' # "poll"]_vars

PollingProtocolWitness ==
    /\ pc = "poll"
    /\ polls = MaxPolls
    /\ PendingAnswer(last_resp)

\* C6: a status answer of 200 with a status other than 'pending'/'imported',
\* or with an HTTP status other than 200/403/404, aborts the run: no progress
\* line for the issue, no further poll, no later submission.
FailedImportFatal ==
    /\ [][(PollStep
             /\ \/ (last_resp'.code = 200
                      /\ last_resp'.status \notin {"pending", "imported"})
                \/ last_resp'.code \notin {200, 403, 404})
          => (pc' = "aborted" /\ exit_code' = 1 /\ reports' = reports)]_vars
    /\ [][AbortIsFinal]_vars

FailedImportFatalWitness ==
    /\ pc = "aborted"
    /\ error = "verify_github_issue_import_finished"
    /\ last_resp.code = 200
    /\ last_resp.status = "failed"
    /\ Len(emitted) >= 2

\* C7: only a 202 answer to the import POST leads to polling; 422 and every
\* other status abort the run without a poll, a retry or a later submission.
SubmissionOutcome ==
    /\ [][PushStep =>
             /\ pc = "push"
             /\ last_push' = 202 => (pc' = "poll" /\ polls' = 0 /\ exit_code' = -1)
             /\ last_push' # 202 => (pc' = "aborted" /\ exit_code' = 1
                                     /\ reports' = reports)]_vars
    /\ [][PollStep => last_push = 202]_vars
    /\ [][AbortIsFinal]_vars

SubmissionOutcomeWitness ==
    /\ pc = "aborted"
    /\ error = "push_github_issue"
    /\ last_push = 422
    /\ import_posts >= 2

\* C8: a 403 or 404 answer to a status check ends the polling without error;
\* the identifiers are not compared, the issue is reported completed and the
\* driver goes on to the next issue.
StatusQuirkNonFatal ==
    [][(PollStep /\ last_resp'.code \in {403, 404}) =>
          /\ pc' = "next"
          /\ exit_code' = -1
          /\ error' = ""
          /\ reports' = Append(reports, <<"Completed", index + 1, "issues">>)
          /\ obtained' = Append(obtained, 0)]_vars

\* the job of a completed issue got another identifier than the issue's, its
\* status check answered 403/404, and the driver went on to the next issue
StatusQuirkNonFatalWitness ==
    \E k \in 1..Len(obtained) :
        /\ obtained[k] = 0
        /\ imports[k].status = "imported"
        /\ imports[k].gh_id # emitted[k].id
        /\ Len(emitted) > k
        /\ pc = "push"

\* C9: a dry run sends no import POST and no milestone-creation POST and
\* leaves the target's issues and milestones as they were.
DryRunChangesNothing ==
    options.dry_run =>
        /\ import_posts = 0
        /\ milestone_posts = 0
        /\ imports = <<>>
        /\ Len(gh_issues) = gh_initial
        /\ gh_milestones = gh_milestones0

\* what a finished dry run printed: one converted issue per identifier
\* skip+1 .. max(ids), ascending, the filler issue at the gaps
DryRunPrinted ==
    LET n == IF bb_issues = <<>> THEN 0 ELSE Max(Ids(bb_issues)) - options.skip
    IN  /\ Len(printed) = n
        /\ \A k \in 1..n :
              /\ printed[k].src = options.skip + k
              /\ printed[k].dummy <=> (options.skip + k) \notin Ids(bb_issues)

MaxRestarts == 1

Running == pc \in {"next", "push", "poll"}

\* the process ends between two steps of main
Interrupt ==
    /\ Running
    /\ restarts < MaxRestarts
    /\ pc' = "interrupted"
    /\ exit_code' = 1
    /\ error' = "interrupted"
    /\ UNCHANGED <<driverVars, targetVars, options, bb_issues, gh_initial,
                   gh_milestones0, users, calls, arg, result, restarts>>

\* the generators a new process builds: get_issues(bb_url, options.skip, ...)
\* wrapped in fill_gaps(..., options.skip)
RestartGen(opts) ==
    [pos |-> 0, current_id |-> opts.skip, held |-> 0, dummy_id |-> 0]

\* the same command line is run again: main starts over with fresh locals,
\* loads the milestones the target has now, and builds new generators
Restart ==
    /\ pc = "interrupted"
    /\ pc' = "next"
    /\ exit_code' = -1
    /\ error' = ""
    /\ restarts' = restarts + 1
    /\ gen' = RestartGen(options)
    /\ index' = 0
    /\ issue' = NoIssue
    /\ gh_issue' = [dummy |-> FALSE, src |-> 0, milestone |-> 0]
    /\ status_url' = 0
    /\ polls' = 0
    /\ printed' = <<>>
    /\ reports' = <<>>
    /\ emitted' = <<>>
    /\ obtained' = <<>>
    /\ last_push' = 0
    /\ last_resp' = NoResp
    /\ title_to_number' = Load(gh_milestones)
    /\ UNCHANGED <<import_posts, milestone_posts, quirks, targetVars, options,
                   bb_issues, gh_initial, gh_milestones0, users, calls, arg,
                   result>>

\* a live run from the first issue into an empty target repository
RestartInit ==
    /\ Init
    /\ ~options.dry_run
    /\ options.skip = 0
    /\ gh_initial = 0

RestartNext ==
    \/ Next
    \/ Interrupt
    \/ Restart

RestartSpec == RestartInit /\ [][RestartNext]_vars

\* C11: no source issue is ever created twice on the target, however the
\* run was interrupted and started again: no two issues of the target come
\* from the same source identifier.
NoDuplicateAcrossRestart ==
    \A g1, g2 \in 1..Len(gh_issues) :
        gh_issues[g1] = gh_issues[g2] => g1 = g2


\* ================================================== GithubMilestones alone
\* One GithubMilestones object, built over a target that holds some
\* milestones already, and a sequence of ensure calls on it.
MaxEnsures == 4

MsTitles == {"v1", "v2", "v3"}

\* the milestone lists a target can hold at the start: titles are unique
MsLists ==
    {<<>>} \cup {<<t>> : t \in MsTitles}
           \cup UNION {{<<t, u>> : u \in MsTitles \ {t}} : t \in MsTitles}

OnTarget(title) == \E n \in 1..Len(gh_milestones) : gh_milestones[n] = title

MilestoneInit ==
    /\ Init
    /\ ~options.dry_run
    /\ options.skip = 0
    /\ bb_issues = <<>>
    /\ gh_initial = 0
    /\ gh_milestones0 = <<>>

\* GithubMilestones.__init__: refresh() loads what the target holds
MilestoneLoad ==
    /\ pc = "next"
    /\ calls = <<>>
    /\ \E ms \in MsLists :
        /\ gh_milestones' = ms
        /\ title_to_number' = LoadFrom(MsTitles, ms)
        /\ calls' = <<[fn |-> "load", loaded |-> {ms[n] : n \in 1..Len(ms)}]>>
    /\ UNCHANGED <<pc, exit_code, error, index, issue, gh_issue, status_url,
                   polls, printed, reports, emitted, obtained, import_posts,
                   milestone_posts, last_push, last_resp, quirks, gen,
                   gh_issues, imports, options, bb_issues, gh_initial,
                   gh_milestones0, users, arg, result, restarts>>

\* GithubMilestones.ensure(title); the target answers a creation POST with
\* 201 only for a title it does not hold yet
Ensure ==
    /\ pc = "next"
    /\ calls # <<>>
    /\ Len(calls) <= MaxEnsures
    /\ \E title \in MsTitles, code \in MilestoneCodes :
        IF NeedsCreate(title_to_number, title)
        THEN /\ code = 201 => ~OnTarget(title)
             /\ milestone_posts' = milestone_posts + 1
             /\ IF code = 201
                THEN /\ gh_milestones' = Append(gh_milestones, title)
                     /\ title_to_number' =
                            [title_to_number EXCEPT
                                ![title] = Len(gh_milestones) + 1]
                     /\ calls' = Append(calls,
                                    [fn |-> "ensure", title |-> title,
                                     posted |-> TRUE,
                                     number |-> Len(gh_milestones) + 1])
                     /\ UNCHANGED <<pc, exit_code, error>>
                ELSE /\ Abort("milestone")
                     /\ calls' = Append(calls,
                                    [fn |-> "ensure", title |-> title,
                                     posted |-> TRUE, number |-> 0])
                     /\ UNCHANGED <<gh_milestones, title_to_number>>
        ELSE /\ code = 201
             /\ calls' = Append(calls,
                            [fn |-> "ensure", title |-> title,
                             posted |-> FALSE,
                             number |-> title_to_number[title]])
             /\ UNCHANGED <<pc, exit_code, error, milestone_posts,
                            gh_milestones, title_to_number>>
    /\ UNCHANGED <<index, issue, gh_issue, status_url, polls, printed,
                   reports, emitted, obtained, import_posts, last_push,
                   last_resp, quirks, gen, gh_issues, imports, options,
                   bb_issues, gh_initial, gh_milestones0, users, arg, result,
                   restarts>>

MilestoneNext == MilestoneLoad \/ Ensure

MilestoneSpec == MilestoneInit /\ [][MilestoneNext]_vars

EnsureCalls == {k \in 1..Len(calls) : calls[k].fn = "ensure"}

\* the ensure calls that returned (the others raised)
Returned == {k \in EnsureCalls : calls[k].number # 0}

Posts(title) == {k \in EnsureCalls : calls[k].title = title /\ calls[k].posted}

\* C12: within one run, ensure calls with the same title return the same
\* number every time; at most one creation POST is sent per title, and none
\* for a title that was loaded at the start.
MilestoneIdempotence ==
    /\ \A j, k \in Returned :
          calls[j].title = calls[k].title => calls[j].number = calls[k].number
    /\ \A title \in MsTitles : Cardinality(Posts(title)) <= 1
    /\ calls # <<>> => \A title \in calls[1].loaded : Posts(title) = {}
    /\ milestone_posts =
          Cardinality({k \in EnsureCalls : calls[k].posted})

\* a title was created by its first ensure call and returned again by a
\* later one, and a title loaded at the start was ensured as well
MilestoneIdempotenceWitness ==
    /\ \E j, k \in Returned :
          /\ j < k
          /\ calls[j].title = calls[k].title
          /\ calls[j].posted
          /\ ~calls[k].posted
    /\ \E k \in Returned : calls[k].title \in calls[1].loaded


\* ====================================================== format_user alone
\* options.users starts as the --map-user dict and is the cache that
\* _gh_username fills; format_user is called once per author it formats.
MaxFormats == 5

Usernames == {"alice", "bob", "carol"}

UserCodes == {200, 404, 403, 500}

\* faulty variant of CacheHit: a cached None counts as a miss
CacheHit_truthy(us, username) == us[username] \notin {NoKey, NoUser}

\* _gh_username: `return users[username]` unless it raises KeyError
CacheHit(us, username) == us[username] # NoKey

\* _gh_username after the HEAD request answered code: what it stores
Resolved(username, code) ==
    IF code = 200 THEN username ELSE NoUser

\* _gh_username raises on every status but 200 and 404
UserCheckRaises(code) == code \notin {200, 404}

UserInit ==
    /\ DriverIdle
    /\ arg = NoArg
    /\ result = NotApplied
    /\ restarts = 0
    \* options.users = dict(user.split('=') for user in options._map_users)
    /\ users \in [Usernames -> {NoKey, "mapped"}]
    \* explicitly_mapped_users = dict(options.users)
    /\ calls = <<[fn |-> "map_user",
                  mapped |-> {u \in Usernames : users[u] # NoKey},
                  explicit |-> users]>>

\* format_user(user, options) for a user with a nickname
FormatUser ==
    /\ pc = "next"
    /\ Len(calls) <= MaxFormats
    /\ \E username \in Usernames, code \in UserCodes :
        IF CacheHit(users, username)
        THEN /\ code = 200
             /\ calls' = Append(calls,
                            [fn |-> "format_user", username |-> username,
                             checked |-> FALSE, code |-> 0])
             /\ UNCHANGED <<users, pc, exit_code, error>>
        ELSE /\ calls' = Append(calls,
                            [fn |-> "format_user", username |-> username,
                             checked |-> TRUE, code |-> code])
             /\ IF UserCheckRaises(code)
                THEN Abort("user check") /\ UNCHANGED users
                ELSE /\ users' = [users EXCEPT
                                      ![username] = Resolved(username, code)]
                     /\ UNCHANGED <<pc, exit_code, error>>
    /\ UNCHANGED <<driverVars, targetVars, options, bb_issues, gh_initial,
                   gh_milestones0, arg, result, restarts>>

MentionTok(name) == "@" \o name

\* faulty variant of ConvertUsers: '@' + options.users.get(matched, matched)
ConvertUsers_nofallback(content, us) ==
    [k \in 1..Len(content) |->
        IF \E u \in Usernames : content[k] = MentionTok(u) /\ us[u] # NoKey
        THEN MentionTok(us[CHOOSE u \in Usernames : content[k] = MentionTok(u)])
        ELSE content[k]]

\* convert_users: '@' + (options.users.get(matched) or matched)
ConvertUsers(content, us) ==
    [k \in 1..Len(content) |->
        IF \E u \in Usernames :
              content[k] = MentionTok(u) /\ us[u] \notin {NoKey, NoUser}
        THEN MentionTok(us[CHOOSE u \in Usernames : content[k] = MentionTok(u)])
        ELSE content[k]]

\* faulty variant of ExplicitlyMappedUsers: the table is options.users itself
ExplicitlyMappedUsers_shared == users

\* main: explicitly_mapped_users, the copy of options.users taken before
\* any user is resolved
ExplicitlyMappedUsers == calls[1].explicit

\* issue['assignee'] is None
NoAssignee == "<no assignee>"

\* convert_issue: gh_assignee = users[bb_assignee_nickname], None on KeyError
Assignee(table, nickname) ==
    IF nickname \in DOMAIN table /\ table[nickname] # NoKey
    THEN table[nickname] ELSE NoUser

\* convert_issue, lines 448-454, for the assignee of the current issue
ConvertAssignee ==
    /\ pc = "next"
    /\ \E nickname \in Usernames \cup {NoAssignee} :
        result' = [kind |-> "value", fn |-> "assignee", username |-> nickname,
                   value |-> <<Assignee(ExplicitlyMappedUsers, nickname)>>]
    /\ UNCHANGED <<driverVars, targetVars, options, bb_issues, gh_initial,
                   gh_milestones0, pc, exit_code, error, users, calls, arg,
                   restarts>>

\* convert_users on a text that is one @mention
ConvertMention ==
    /\ pc = "next"
    /\ \E username \in Usernames :
        result' = [kind |-> "value", fn |-> "mention", username |-> username,
                   value |-> ConvertUsers(<<MentionTok(username)>>, users)]
    /\ UNCHANGED <<driverVars, targetVars, options, bb_issues, gh_initial,
                   gh_milestones0, pc, exit_code, error, users, calls, arg,
                   restarts>>

UserNext ==
    \/ FormatUser
    \/ ConvertAssignee
    \/ ConvertMention

UserSpec == UserInit /\ [][UserNext]_vars

\* the existence checks (HEAD requests) sent for a username
Checks(username) ==
    {k \in 2..Len(calls) : calls[k].username = username /\ calls[k].checked}

\* C13: at most one existence check is sent per username whose check
\* answered 200 or 404, and none for a username in the override map.
UserCaching ==
    /\ \A u \in Usernames :
          (\E k \in Checks(u) : calls[k].code \in {200, 404})
              => Cardinality(Checks(u)) <= 1
    /\ \A u \in calls[1].mapped : Checks(u) = {}

\* a username answered 404 and one answered 200 were formatted again, and
\* so was a username of the override map
UserCachingWitness ==
    /\ \A c \in {200, 404} : \E j, k \in 2..Len(calls) :
          /\ j < k
          /\ calls[j].checked /\ calls[j].code = c
          /\ calls[k].username = calls[j].username
    /\ \E k \in 2..Len(calls) : calls[k].username \in calls[1].mapped


\* =================================================== the text conversions
\* A text is a sequence of tokens: a word "x", a blank " ", a line break
\* "\n", the Creole braces "{{{" and "}}}", a backtick, the four-blank
\* indentation, a changeset marker, and records for issue URLs, '#n'
\* references and @mentions.
Newline == "\n"
Indent == "    "
Open == "{{{"
Close == "}}}"
Backtick == "<backtick>"
CsetMark == "-> <<cset"

\* str.isspace of a token
IsSpace(t) == t \in {" ", Newline, Indent}

\* `not body.strip()`
Blank(s) == \A k \in 1..Len(s) : IsSpace(s[k])

Has(s, t) == \E k \in 1..Len(s) : s[k] = t

\* str.find: the first position of token t in s
Find(s, t) == CHOOSE k \in 1..Len(s) : s[k] = t /\ \A j \in 1..(k - 1) : s[j] # t

\* str.splitlines
RECURSIVE SplitLines(_)
SplitLines(s) ==
    IF s = <<>> THEN <<>>
    ELSE IF ~Has(s, Newline) THEN <<s>>
    ELSE LET nl == Find(s, Newline)
         IN <<SubSeq(s, 1, nl - 1)>> \o SplitLines(SubSeq(s, nl + 1, Len(s)))

\* "\n".join(lines)
RECURSIVE JoinLines(_)
JoinLines(ls) ==
    IF ls = <<>> THEN <<>>
    ELSE IF Len(ls) = 1 THEN ls[1]
    ELSE ls[1] \o <<Newline>> \o JoinLines(Tail(ls))

\* [f(x) for x in s if keep(x)] for a filter given as a set of positions
RECURSIVE Select(_, _, _)
Select(s, keep, k) ==
    IF k > Len(s) THEN <<>>
    ELSE (IF k \in keep THEN <<s[k]>> ELSE <<>>) \o Select(s, keep, k + 1)

\* convert_changesets without --link-changesets: the lines that start with
\* the changeset marker are removed
ConvertChangesets(content) ==
    LET lines == SplitLines(content)
        kept == {k \in 1..Len(lines) :
                    ~(lines[k] # <<>> /\ lines[k][1] = CsetMark)}
    IN JoinLines(Select(lines, kept, 1))

StartsWith(line, t) == line # <<>> /\ line[1] = t

\* str.partition(t): the text before and the text after the first t
Before(line, t) == SubSeq(line, 1, Find(line, t) - 1)
After(line, t) == SubSeq(line, Find(line, t) + 1, Len(line))

\* line.replace("{{{", "`").replace("}}}", "`")
Backticked(line) ==
    [k \in 1..Len(line) |->
        IF line[k] \in {Open, Close} THEN Backtick ELSE line[k]]

\* convert_creole_braces, one pass of its loop body: the lines appended
\* for a line and the value of in_block afterwards
CreoleLine(line, in_block) ==
    IF StartsWith(line, Open) \/ StartsWith(line, Close)
    THEN [out |-> (IF Has(line, Open)
                   THEN <<(<<Indent>> \o After(line, Open))>> ELSE <<>>)
                  \o (IF Has(line, Close)
                      THEN <<(<<Indent>> \o Before(line, Close))>> ELSE <<>>),
          in_block |-> ~Has(line, Close)]
    ELSE IF in_block
    THEN [out |-> <<(<<Indent>> \o line)>>, in_block |-> TRUE]
    ELSE [out |-> <<Backticked(line)>>, in_block |-> FALSE]

\* convert_creole_braces, its loop from line k on
RECURSIVE CreoleLoop(_, _, _)
CreoleLoop(lines, k, in_block) ==
    IF k > Len(lines) THEN [out |-> <<>>, in_block |-> in_block]
    ELSE LET here == CreoleLine(lines[k], in_block)
             rest == CreoleLoop(lines, k + 1, here.in_block)
         IN [out |-> here.out \o rest.out, in_block |-> rest.in_block]

ConvertCreoleBraces(content) ==
    JoinLines(CreoleLoop(SplitLines(content), 1, FALSE).out)

\* the issue URLs and the references a text can hold
MaxRef == 2
BbRepo == "owner/repo"
OtherRepo == "other/repo"
UrlTok(repo, n) == "https://bitbucket.org/" \o repo \o "/issue/" \o ToString(n)
RefTok(n) == "#" \o ToString(n)

\* convert_links: re.sub(pattern, r'#\1', content) with the pattern built
\* from options.bitbucket_repo
ConvertLinks(content) ==
    [k \in 1..Len(content) |->
        IF \E n \in 1..MaxRef : content[k] = UrlTok(BbRepo, n)
        THEN RefTok(CHOOSE n \in 1..MaxRef : content[k] = UrlTok(BbRepo, n))
        ELSE content[k]]

\* the filter chain of format_issue_body and format_comment_body
ConvertContent(raw, us) ==
    ConvertUsers(ConvertLinks(ConvertCreoleBraces(ConvertChangesets(raw))), us)

\* format_user with the GitHub name already resolved
NoAuthor == "<no author>"
FormatUserText(author, us) ==
    IF author = NoAuthor THEN <<"Anonymous">>
    ELSE <<author, " ", "(Bitbucket: " \o author, ", ">>
         \o (IF us[author] \notin {NoKey, NoUser}
             THEN <<"GitHub: " \o us[author]>> ELSE <<>>)
         \o <<")">>

\* options.bb_skip (--skip-attribution-for)
BbSkip == "bob"

\* COMMENT_TEMPLATE and COMMENT_TEMPLATE_SKIP_USER, formatted
CommentTemplate(author_text, content) ==
    <<"**Original comment by ">> \o author_text
        \o <<".**", Newline, Newline, "----", Newline, Newline>>
        \o content \o <<Newline>>
CommentTemplateSkipUser(content) == content \o <<Newline>>

\* comment['content']['raw'] is null
NoRaw == <<"<None>">>

\* format_comment_body
FormatCommentBody(comment, us) ==
    LET content == ConvertContent(comment.raw, us)
        skip_user == comment.user # NoAuthor /\ comment.user = BbSkip
    IN IF skip_user
       THEN CommentTemplateSkipUser(content)
       ELSE CommentTemplate(FormatUserText(comment.user, us), content)

\* convert_comment returns None for a body that is blank
ConvertCommentDrops(comment, us) == Blank(FormatCommentBody(comment, us))

\* main: gh_comments, the converted comments of an issue; src is the
\* position of the comment in the list the source returned
GhComments(comments, us) ==
    LET kept == {k \in 1..Len(comments) :
                    /\ comments[k].raw # NoRaw
                    /\ ~ConvertCommentDrops(comments[k], us)}
        conv == [k \in 1..Len(comments) |->
                    [src |-> k,
                     body |-> IF comments[k].raw = NoRaw THEN <<>>
                              ELSE FormatCommentBody(comments[k], us)]]
    IN Select(conv, kept, 1)

\* ------------------------------------------------------ convert_issue
\* A label is a text of one-character tokens; issue[key] is None
NoText == <<"<None>">>
Comma == ","

\* GitHub caps label lengths at 50
LabelMax == 50

Min(a, b) == IF a <= b THEN a ELSE b

\* v.replace(',', '')
RemoveCommas(v) == Select(v, {k \in 1..Len(v) : v[k] # Comma}, 1)

\* v[:n]
Prefix(v, n) == SubSeq(v, 1, Min(n, Len(v)))

\* faulty variant of LabelOf: the text is cut before the commas are removed
LabelOf_cutfirst(v) == RemoveCommas(Prefix(v, LabelMax))

\* convert_issue: v.replace(',', '')[:50]
LabelOf(v) == Prefix(RemoveCommas(v), LabelMax)

\* convert_issue: labels = [issue['priority']], then one label for each of
\* component, kind, version that is not None
Labels(iss) ==
    <<iss.priority>>
        \o (IF iss.component # NoText THEN <<LabelOf(iss.component)>> ELSE <<>>)
        \o (IF iss.kind # NoText THEN <<LabelOf(iss.kind)>> ELSE <<>>)
        \o (IF iss.version # NoText THEN <<LabelOf(iss.version)>> ELSE <<>>)

\* ------------------------------------------ main, one pass of its loop
\* the requests main sends to the source for the issue it got from the
\* generator: comments and changes unless it is a DummyIssue, and the
\* attachment names whenever --mention-attachments is given
SourceRequests(iss, opts) ==
    (IF iss.dummy THEN {}
     ELSE {[get |-> "comments", id |-> iss.id],
           [get |-> "changes", id |-> iss.id]})
    \cup (IF opts.mention_attachments
          THEN {[get |-> "attachments", id |-> iss.id]} ELSE {})

\* convert_issue for a DummyIssue
DummyPayload ==
    [title |-> "dummy issue",
     body |-> "filler issue created by bitbucket_issue_migration",
     closed |-> TRUE]

\* convert_issue for an issue of the source, reduced to its title and state
RealPayload ==
    [title |-> "<title>", body |-> "<body>", closed |-> FALSE]

ConvertIssue(iss) == IF iss.dummy THEN DummyPayload ELSE RealPayload

\* ------------------------------------------------------ convert_change
\* format_change_element: None when the element has neither old nor new
ChangeElementRenders(el) == el.old # "" \/ el.new # ""

FormatChangeElement(name, el) ==
    IF el.old # "" /\ el.new # ""
    THEN <<"changed ", name, " from ", el.old, " to ", el.new>>
    ELSE IF el.old # "" THEN <<"removed ", el.old, " ", name>>
    ELSE <<"set ", name, " to ", el.new>>

ChangeFields == <<"status", "title">>

\* "; ".join(...) of the elements that render, in the order of the dict
RECURSIVE JoinChanges(_, _)
JoinChanges(change, k) ==
    IF k > Len(ChangeFields) THEN <<>>
    ELSE LET name == ChangeFields[k]
             rest == JoinChanges(change, k + 1)
         IN IF name \in DOMAIN change.changes
               /\ ChangeElementRenders(change.changes[name])
            THEN FormatChangeElement(name, change.changes[name])
                 \o (IF rest = <<>> THEN <<>> ELSE <<"; ">> \o rest)
            ELSE rest

\* format_change_body: None when no element renders
FormatChangeBody(change, us) ==
    LET changes == JoinChanges(change, 1)
    IN IF changes = <<>> THEN NoText
       ELSE <<"**Original changes by ">> \o FormatUserText(change.user, us)
                \o <<".**", Newline, Newline, "----", Newline, Newline>>
                \o changes \o <<Newline>>

\* convert_change: body.strip() on None raises AttributeError
ConvertChangeRaises(change, us) == FormatChangeBody(change, us) = NoText

\* convert_change returns None for a blank body
ConvertChangeDrops(change, us) == Blank(FormatChangeBody(change, us))

\* main, lines 239-244: the list comprehension over all the changes
GhChanges(changes, us) ==
    IF \E k \in 1..Len(changes) : ConvertChangeRaises(changes[k], us)
    THEN [kind |-> "raise", error |-> "AttributeError"]
    ELSE [kind |-> "value",
          value |-> Select([k \in 1..Len(changes) |->
                              [src |-> k,
                               body |-> FormatChangeBody(changes[k], us)]],
                           {k \in 1..Len(changes) :
                               ~ConvertChangeDrops(changes[k], us)}, 1)]

\* ------------------------------------------- convert_issue: timestamps
\* A timestamp of the source is a day with its time-zone offset ("bb");
\* convert_date keeps date and time and writes a 'Z' for the offset ("gh").
NoDate == [day |-> 0, fmt |-> "none"]

\* convert_date: '{}T{}Z'.format(date, time)
ConvertDate(bb_date) == [day |-> bb_date.day, fmt |-> "gh"]

OpenLike == {"open", "new", "on hold"}

\* convert_issue: issue['state'] not in ('open', 'new', 'on hold')
IsClosed(iss) == iss.state \notin OpenLike

\* a change event without a 'state' element
NoStateChange == [old |-> "<no state>", new |-> "<no state>"]

\* convert_issue: the `if` of the closed_status comprehension
ClosesIssue(change) ==
    /\ change.state # NoStateChange
    /\ change.state.old \in OpenLike \cup {""}
    /\ change.state.new \notin OpenLike \cup {""}

\* convert_issue: closed_status, as the set of its elements
ClosedStatus(changes) ==
    {ConvertDate(changes[k].created_on) :
        k \in {j \in 1..Len(changes) : ClosesIssue(changes[j])}}

\* faulty variant of LastOf: sorted(closed_status)[0]
LastOf_first(dates) == CHOOSE d \in dates : \A e \in dates : d.day <= e.day

\* sorted(closed_status)[-1]
LastOf(dates) == CHOOSE d \in dates : \A e \in dates : e.day <= d.day

\* convert_issue: out['closed_at'], NoDate when the key is not set
ClosedAt(iss, changes) ==
    IF ~IsClosed(iss) THEN NoDate
    ELSE IF ClosedStatus(changes) # {} THEN LastOf(ClosedStatus(changes))
    ELSE iss.updated_on

\* convert_issue: closed and the timestamp fields of out
IssueTimes(iss, changes) ==
    [closed |-> IsClosed(iss),
     created_at |-> ConvertDate(iss.created_on),
     updated_at |-> ConvertDate(iss.updated_on),
     closed_at |-> ClosedAt(iss, changes)]

\* ---------------------------------------------- the conversions, applied
\* Each behaviour draws one input and applies the conversion it is for.
MaxComments == 2

\* the GitHub names known when the texts are converted
ConvUsers == [u \in Usernames |->
                IF u = "alice" THEN "alice-gh"
                ELSE IF u = "bob" THEN NoUser ELSE NoKey]

RawContents == {NoRaw, <<>>, <<" ">>, <<"x">>, <<CsetMark, "x">>}

Authors == {NoAuthor, BbSkip, "alice"}

Comments == [raw : RawContents, user : Authors]

CommentLists == UNION {[1..n -> Comments] : n \in 0..MaxComments}

CommentArgs == {[fn |-> "comments", comments |-> cs] : cs \in CommentLists}

\* the texts of n characters with commas at the positions in cs
MaxOver == 2
TextOf(n, cs) == [k \in 1..n |-> IF k \in cs THEN Comma ELSE ToString(k)]

LabelLens == {0, 1} \cup ((LabelMax - 1)..(LabelMax + MaxOver))

LabelTexts ==
    UNION {{TextOf(n, cs) : cs \in SUBSET ({1, 2, LabelMax + 1} \cap 1..n)} :
              n \in LabelLens}

\* priority and kind are enumerations of the source
Priorities == {<<"m", "a", "j", "o", "r">>, <<"t", "r", "i", "v", "i", "a", "l">>}
Kinds == {<<"b", "u", "g">>, <<"t", "a", "s", "k">>}

LabelArgs ==
    {[fn |-> "labels", issue |-> i] :
        i \in [priority : Priorities,
               component : LabelTexts \cup {NoText},
               kind : Kinds \cup {NoText},
               version : {NoText, TextOf(LabelMax + MaxOver, {2})}]}

\* texts with issue URLs of the source repository and of another one
MaxText == 2
LinkTokens ==
    {"x"} \cup {UrlTok(BbRepo, n) : n \in 1..MaxRef}
          \cup {UrlTok(OtherRepo, n) : n \in 1..MaxRef}
          \cup {RefTok(n) : n \in 1..MaxRef}

LinkTexts == UNION {[1..n -> LinkTokens] : n \in 0..MaxText}

\* the target identifier each source issue got so far (0: none yet); an
\* issue lands on its own identifier, or past it when the target held
\* issues the run did not account for
IdMaps == {m \in [1..MaxRef -> 0..(MaxRef + 1)] :
              \A n \in 1..MaxRef : m[n] \in {0, n, n + 1}}

LinkArgs ==
    {[fn |-> "links", content |-> c, id_map |-> m] :
        c \in LinkTexts, m \in IdMaps}

\* one issue from the generator and the options that decide the requests
IterationArgs ==
    {[fn |-> "iteration", issue |-> i, options |-> o] :
        i \in {DummyIssue(n) : n \in 1..MaxRef}
                \cup {RealIssue([id |-> n]) : n \in 1..MaxRef},
        o \in [mention_attachments : BOOLEAN, mention_changes : BOOLEAN]}

\* the changes of an issue: each names the fields that changed
MaxChanges == 2
ChangeElements == [old : {"", "new"}, new : {"", "open"}]
ChangeDicts ==
    {<<>>} \cup [{"status"} -> ChangeElements]
           \cup {c \in [{"status", "title"} -> ChangeElements] :
                    c["title"].old = "" /\ c["title"].new \in {"", "open"}}
Changes == [changes : ChangeDicts, user : {NoAuthor, "alice"}]
ChangeLists == UNION {[1..n -> Changes] : n \in 0..MaxChanges}
ChangeArgs == {[fn |-> "changes", changes |-> cs] : cs \in ChangeLists}

\* texts of words, braces and line breaks
MaxLine == 4
CreoleTexts == UNION {[1..n -> {"x", Open, Close, Newline}] : n \in 0..MaxLine}
CreoleArgs == {[fn |-> "creole", content |-> c] : c \in CreoleTexts}

\* issues with their state and timestamps, and their change events
MaxDay == 2
MaxEvents == 2
BbDates == [day : 1..MaxDay, fmt : {"bb"}]
IssueStates == {"on hold", "resolved"}
StateChanges ==
    {NoStateChange,
     [old |-> "", new |-> "resolved"],
     [old |-> "open", new |-> "resolved"],
     [old |-> "open", new |-> "on hold"],
     [old |-> "resolved", new |-> "closed"]}
Events == [created_on : BbDates, state : StateChanges]
EventLists == UNION {[1..n -> Events] : n \in 0..MaxEvents}
TimeArgs ==
    {[fn |-> "times", issue |-> i, changes |-> cs] :
        i \in [state : IssueStates, created_on : {[day |-> 1, fmt |-> "bb"]},
               updated_on : BbDates],
        cs \in EventLists}

\* a comment list or a change history of some pages, page k holding item k
MaxPages == 3
FetchFns == {"get_issue_comments", "get_issue_changes"}
FetchArgs == {[fn |-> f, pages |-> n] : f \in FetchFns, n \in 1..MaxPages}

ConvertArgs ==
    CommentArgs \cup LabelArgs \cup LinkArgs \cup IterationArgs
        \cup ChangeArgs \cup CreoleArgs \cup TimeArgs \cup FetchArgs

ConvertInit ==
    /\ DriverIdle
    /\ users = ConvUsers
    /\ calls = <<>>
    /\ restarts = 0
    /\ arg \in ConvertArgs
    /\ result = NotApplied

Value(v) == [kind |-> "value", value |-> v]

convertFrame == <<options, bb_issues, gen, pc, index, issue, gh_issue,
                  status_url, polls, printed, reports, exit_code, error,
                  title_to_number, gh_initial, gh_issues, imports,
                  gh_milestones, gh_milestones0, emitted, obtained,
                  import_posts, milestone_posts, last_push, last_resp, quirks,
                  users, calls, arg, restarts>>

\* main, lines 233-237: the comments of one issue are converted
ConvertComments ==
    /\ arg.fn = "comments"
    /\ result = NotApplied
    /\ result' = Value(GhComments(arg.comments, users))
    /\ UNCHANGED convertFrame

\* convert_issue, lines 435-445: the labels of one issue
ConvertLabels ==
    /\ arg.fn = "labels"
    /\ result = NotApplied
    /\ result' = Value(Labels(arg.issue))
    /\ UNCHANGED convertFrame

\* convert_links(content, options)
ConvertLinksCall ==
    /\ arg.fn = "links"
    /\ result = NotApplied
    /\ result' = Value(ConvertLinks(arg.content))
    /\ UNCHANGED convertFrame

\* main, lines 216-244, for an issue whose comments and changes are empty
Iteration ==
    /\ arg.fn = "iteration"
    /\ result = NotApplied
    /\ result' = Value([requests |-> SourceRequests(arg.issue, arg.options),
                        gh_issue |-> ConvertIssue(arg.issue),
                        gh_comments |-> <<>>])
    /\ UNCHANGED convertFrame

\* main, lines 239-244, under --mention-changes
ConvertChanges ==
    /\ arg.fn = "changes"
    /\ result = NotApplied
    /\ result' = GhChanges(arg.changes, users)
    /\ UNCHANGED convertFrame

\* convert_creole_braces(content), with in_block as the loop left it
ConvertCreole ==
    /\ arg.fn = "creole"
    /\ result = NotApplied
    /\ result' = Value([text |-> ConvertCreoleBraces(arg.content),
                        in_block |->
                            CreoleLoop(SplitLines(arg.content), 1, FALSE).in_block])
    /\ UNCHANGED convertFrame

\* convert_issue, lines 447 and 457-479: closed and the timestamps
ConvertTimes ==
    /\ arg.fn = "times"
    /\ result = NotApplied
    /\ result' = Value(IssueTimes(arg.issue, arg.changes))
    /\ UNCHANGED convertFrame

\* what get_issue_comments or get_issue_changes does with the answer to
\* the GET of page k out of n: raise, return, or go on with the next page
\* (NotApplied)
FetchOutcome(fn, k, n, code) ==
    IF fn = "get_issue_comments" /\ CommentsRaise(code)
    THEN [kind |-> "raise", error |-> "RuntimeError"]
    ELSE IF fn = "get_issue_changes" /\ ChangesRaise(code)
    THEN [kind |-> "raise", error |-> "RuntimeError"]
    ELSE IF code = 500 THEN Value(<<>>)
    ELSE IF k = n THEN Value([j \in 1..k |-> j])
    ELSE NotApplied

\* one pass of the `while next_url is not None` loop of get_issue_comments
\* or get_issue_changes
FetchPage ==
    /\ arg.fn \in FetchFns
    /\ result = NotApplied
    /\ \E code \in ChangesCodes :
        /\ calls' = Append(calls, [page |-> Len(calls) + 1, code |-> code])
        /\ result' = FetchOutcome(arg.fn, Len(calls) + 1, arg.pages, code)
    /\ UNCHANGED <<options, bb_issues, gen, pc, index, issue, gh_issue,
                   status_url, polls, printed, reports, exit_code, error,
                   title_to_number, gh_initial, gh_issues, imports,
                   gh_milestones, gh_milestones0, emitted, obtained,
                   import_posts, milestone_posts, last_push, last_resp, quirks,
                   users, arg, restarts>>

ConvertNext ==
    \/ FetchPage
    \/ ConvertTimes
    \/ ConvertCreole
    \/ ConvertComments
    \/ ConvertLabels
    \/ ConvertLinksCall
    \/ Iteration
    \/ ConvertChanges

ConvertSpec == ConvertInit /\ [][ConvertNext]_vars

Applied(fn) == arg.fn = fn /\ result # NotApplied

\* the positions of the comments with a non-empty raw content, ascending
NonEmptyComments(comments) ==
    Select([k \in 1..Len(comments) |-> k],
           {k \in 1..Len(comments) : comments[k].raw \notin {NoRaw, <<>>}}, 1)

\* C14: the converted comment list of an issue is exactly the comments
\* whose raw content is non-empty, in their original order; a comment whose
\* raw content is absent or empty yields no converted comment, whoever its
\* author is.
CommentDropping ==
    Applied("comments") =>
        [k \in 1..Len(result.value) |-> result.value[k].src]
            = NonEmptyComments(arg.comments)

\* the label at position k is the comma-free text v cut to LabelMax
IsCutOf(label, v) ==
    LET w == RemoveCommas(v)
    IN /\ Len(label) = Min(Len(w), LabelMax)
       /\ \A k \in 1..Len(label) : label[k] = w[k]

\* the texts of component, kind and version that are present, in this order
PresentTexts(iss) ==
    Select(<<iss.component, iss.kind, iss.version>>,
           {k \in 1..3 : <<iss.component, iss.kind, iss.version>>[k] # NoText},
           1)

\* C15: every label of a converted issue has no comma and at most 50
\* characters, a component, kind or version being its comma-free text cut
\* to the first 50 characters; the priority label is always present.
LabelNormalisation ==
    Applied("labels") =>
        LET labels == result.value
            texts == PresentTexts(arg.issue)
        IN /\ \A k \in 1..Len(labels) :
                /\ ~Has(labels[k], Comma)
                /\ Len(labels[k]) <= LabelMax
           /\ Len(labels) = 1 + Len(texts)
           /\ labels[1] = arg.issue.priority
           /\ \A k \in 1..Len(texts) : IsCutOf(labels[k + 1], texts[k])

\* a component with commas that is longer than 50 characters without them
\* was converted, next to a kind and a version
LabelNormalisationWitness ==
    /\ Applied("labels")
    /\ Has(arg.issue.component, Comma)
    /\ Len(RemoveCommas(arg.issue.component)) > LabelMax
    /\ Len(result.value) = 4
    /\ Len(result.value[2]) = LabelMax

IsSourceUrl(t) == \E n \in 1..MaxRef : t = UrlTok(BbRepo, n)
UrlIssue(t) == CHOOSE n \in 1..MaxRef : t = UrlTok(BbRepo, n)

\* C16: every URL of an issue N of the source repository is replaced by
\* '#M', M being the target identifier mapped to N, when the map has an
\* entry for N, and by '#N' when it has none; the rest of the text is kept.
LinkRewritingUsesMap ==
    Applied("links") =>
        result.value =
            [k \in 1..Len(arg.content) |->
                IF IsSourceUrl(arg.content[k])
                THEN LET n == UrlIssue(arg.content[k])
                     IN IF arg.id_map[n] # 0
                        THEN RefTok(arg.id_map[n])
                        ELSE RefTok(n)
                ELSE arg.content[k]]

\* the claim holds on every text when each mapped issue kept its identifier
LinkRewritingAligned ==
    (Applied("links") /\ \A n \in 1..MaxRef : arg.id_map[n] \in {0, n})
        => result.value =
            [k \in 1..Len(arg.content) |->
                IF IsSourceUrl(arg.content[k])
                THEN RefTok(UrlIssue(arg.content[k]))
                ELSE arg.content[k]]

\* C17: a placeholder causes no request to the source for its identifier,
\* whatever the options (mention-attachments and mention-changes included);
\* its payload is the fixed filler title and body with closed = true and an
\* empty comment list.
PlaceholderNoFetch ==
    (Applied("iteration") /\ arg.issue.dummy) =>
        /\ result.value.requests = {}
        /\ result.value.gh_issue = DummyPayload
        /\ result.value.gh_comments = <<>>

\* without --mention-attachments the claim holds
PlaceholderNoFetchPlain ==
    (Applied("iteration") /\ arg.issue.dummy
        /\ ~arg.options.mention_attachments) =>
        /\ result.value.requests = {}
        /\ result.value.gh_issue = DummyPayload
        /\ result.value.gh_comments = <<>>

\* the positions of the changes with at least one element that renders
RenderableChanges(changes) ==
    Select([k \in 1..Len(changes) |-> k],
           {k \in 1..Len(changes) :
               \E name \in DOMAIN changes[k].changes :
                   ChangeElementRenders(changes[k].changes[name])}, 1)

\* C18: under mention-changes a change with no renderable element is left
\* out of the converted list and the run goes on; the list holds the
\* renderable changes, in order.
UnrenderableChangesDropped ==
    Applied("changes") =>
        /\ result.kind = "value"
        /\ [k \in 1..Len(result.value) |-> result.value[k].src]
              = RenderableChanges(arg.changes)

\* when every change renders, the list holds them all, in order
RenderableChangesKept ==
    (Applied("changes")
        /\ Len(RenderableChanges(arg.changes)) = Len(arg.changes)) =>
        /\ result.kind = "value"
        /\ [k \in 1..Len(result.value) |-> result.value[k].src]
              = RenderableChanges(arg.changes)

Count(line, t) == Cardinality({k \in 1..Len(line) : line[k] = t})

\* one line with one opening token, some content, then one closing token
InlineCode(line) ==
    /\ ~Has(line, Newline)
    /\ Count(line, Open) = 1
    /\ Count(line, Close) = 1
    /\ Find(line, Open) + 1 < Find(line, Close)

\* C19: a line with an opening token, some content and a closing token,
\* wherever the opening token stands (the very start of the line included),
\* becomes a single line with the content wrapped in backticks; no brace
\* token remains and in_block is false afterwards.
InlineCodeConversion ==
    (Applied("creole") /\ InlineCode(arg.content)) =>
        /\ result.value.text =
              [k \in 1..Len(arg.content) |->
                  IF arg.content[k] \in {Open, Close}
                  THEN Backtick ELSE arg.content[k]]
        /\ ~result.value.in_block

\* the claim holds when the opening token is not at the start of the line
InlineCodeMidLine ==
    (Applied("creole") /\ InlineCode(arg.content)
        /\ Find(arg.content, Open) > 1) =>
        /\ result.value.text =
              [k \in 1..Len(arg.content) |->
                  IF arg.content[k] \in {Open, Close}
                  THEN Backtick ELSE arg.content[k]]
        /\ ~result.value.in_block


\* ================================= the source answers in an order of its own
\* get_issues asks for sort=id and yields the values of each page as they
\* come; here the source returns the issues in any order.
AnyOrderLists(lo, hi) ==
    LET orders == {o \in UNION {[1..n -> lo..hi] : n \in 0..(hi - lo + 1)} :
                      \A j, k \in 1..Len(o) : j # k => o[j] # o[k]}
    IN {[k \in 1..Len(o) |-> [id |-> o[k]]] : o \in orders}

\* a run into an empty target repository without milestones
AnyOrderInit ==
    /\ UnitIdle
    /\ options \in [dry_run : BOOLEAN, debug : {FALSE}, skip : 0..MaxSkip]
    /\ bb_issues \in AnyOrderLists(options.skip + 1, MaxId)
    /\ gen = [pos |-> 0, current_id |-> options.skip, held |-> 0, dummy_id |-> 0]
    /\ pc = "next"
    /\ index = 0
    /\ issue = NoIssue
    /\ gh_issue = [dummy |-> FALSE, src |-> 0, milestone |-> 0]
    /\ status_url = 0
    /\ polls = 0
    /\ printed = <<>>
    /\ reports = <<>>
    /\ exit_code = -1
    /\ error = ""
    /\ gh_initial = 0
    /\ gh_issues = <<>>
    /\ imports = <<>>
    /\ gh_milestones0 = <<>>
    /\ gh_milestones = <<>>
    /\ title_to_number = Load(<<>>)
    /\ emitted = <<>>
    /\ obtained = <<>>
    /\ import_posts = 0
    /\ milestone_posts = 0
    /\ last_push = 0
    /\ last_resp = NoResp
    /\ quirks = 0

AnyOrderSpec == AnyOrderInit /\ [][Next]_vars

\* the issues get_issues has yielded to fill_gaps so far
HandedOver == SubSeq(bb_issues, 1, gen.pos)

\* C20: whatever order the source returns the issues in, the sequence that
\* reaches gap filling is in ascending identifier order.
SortedHandoff == StrictlyIncreasing(HandedOver)

\* a source that answers in ascending order is handed over in that order
SortedHandoffOfSorted == StrictlyIncreasing(bb_issues) => SortedHandoff

\* the change events whose state went from an open-like or empty old
\* value to a new value that is not open-like
Closings(changes) ==
    {k \in 1..Len(changes) :
        /\ changes[k].state # NoStateChange
        /\ changes[k].state.old \in OpenLike \cup {""}
        /\ changes[k].state.new \notin OpenLike}

\* C21: the converted issue has a closed_at exactly when its state is not
\* open-like; it is the time of the latest change event that closed the
\* issue, and the last-updated timestamp of the issue when there is none.
ClosedAtTimestamp ==
    Applied("times") =>
        LET out == result.value
            closings == Closings(arg.changes)
        IN /\ (out.closed_at # NoDate) <=> (arg.issue.state \notin OpenLike)
           /\ (out.closed_at # NoDate /\ closings # {}) =>
                 /\ \E k \in closings :
                       out.closed_at.day = arg.changes[k].created_on.day
                 /\ \A k \in closings :
                       arg.changes[k].created_on.day <= out.closed_at.day
           /\ (out.closed_at # NoDate /\ closings = {}) =>
                 out.closed_at.day = arg.issue.updated_on.day

\* a closed issue with two closing events on different days, the later
\* one first in the history, and a closed issue without a closing event
ClosedAtTimestampWitness ==
    /\ Applied("times")
    /\ arg.issue.state \notin OpenLike
    /\ Len(arg.changes) = 2
    /\ Closings(arg.changes) = {1, 2}
    /\ arg.changes[1].created_on.day > arg.changes[2].created_on.day
    /\ result.value.closed_at.day = arg.changes[1].created_on.day

\* C26: every timestamp field of a converted issue (created_at, updated_at
\* and closed_at when present) is a value produced by convert_date, on the
\* change-history path and on the fallback path of closed_at; on the
\* fallback path closed_at equals updated_at.
UniformTimestamps ==
    Applied("times") =>
        LET out == result.value
        IN /\ out.created_at.fmt = "gh"
           /\ out.updated_at.fmt = "gh"
           /\ out.closed_at # NoDate => out.closed_at.fmt = "gh"
           /\ (out.closed_at # NoDate /\ Closings(arg.changes) = {}) =>
                 out.closed_at = out.updated_at

\* on the change-history path every timestamp is a convert_date value
UniformTimestampsFromHistory ==
    (Applied("times") /\ Closings(arg.changes) # {}) =>
        LET out == result.value
        IN /\ out.created_at.fmt = "gh"
           /\ out.updated_at.fmt = "gh"
           /\ out.closed_at # NoDate => out.closed_at.fmt = "gh"

Fetched(fn) == arg.fn = fn /\ calls # <<>>

LastCode == calls[Len(calls)].code

\* C22: a 500 on any page of the change history never aborts the run and
\* makes the change list empty, the earlier pages being discarded; every
\* other status but 200 on the change history, and every status but 200
\* (500 included) on the comment list, aborts the run.
SecondaryReadErrors ==
    /\ Fetched("get_issue_changes") =>
          /\ LastCode = 500 => result = Value(<<>>)
          /\ LastCode \notin {200, 500} <=> result.kind = "raise"
          /\ (LastCode = 200 /\ Len(calls) = arg.pages) =>
                result = Value([j \in 1..arg.pages |-> j])
    /\ Fetched("get_issue_comments") =>
          /\ LastCode # 200 <=> result.kind = "raise"
          /\ (LastCode = 200 /\ Len(calls) = arg.pages) =>
                result = Value([j \in 1..arg.pages |-> j])

\* the second page of a change history answered 500 after a first page
\* of changes, and the call returned the empty list
SecondaryReadErrorsWitness ==
    /\ Fetched("get_issue_changes")
    /\ Len(calls) = 2
    /\ calls[1].code = 200
    /\ calls[2].code = 500
    /\ result = Value(<<>>)

Converted(fn) == result # NotApplied /\ result.fn = fn

\* C23: at any point of the run the converted assignee is the command-line
\* override of the assignee's username when there is one and absent
\* otherwise, whatever the user resolver has cached since; converting the
\* assignee sends no existence check.
AssigneeFromOverrides ==
    /\ [](Converted("assignee") =>
            result.value =
                <<IF result.username \in calls[1].mapped
                  THEN "mapped" ELSE NoUser>>)
    /\ [][(result' # result /\ result'.fn = "assignee") => calls' = calls]_vars

\* the assignee of an issue was converted after the resolver had cached
\* the same username as an existing GitHub user, and came out absent
AssigneeFromOverridesWitness ==
    /\ Converted("assignee")
    /\ result.username \in Usernames
    /\ result.username \notin calls[1].mapped
    /\ users[result.username] = result.username
    /\ result.value = <<NoUser>>

\* C24: after any sequence of user resolutions an @mention of a username
\* with a command-line override is rewritten to the override, and one of a
\* username without an override is left unchanged.
MentionRewriting ==
    Converted("mention") =>
        result.value =
            <<MentionTok(IF result.username \in calls[1].mapped
                         THEN "mapped" ELSE result.username)>>

\* a mention was converted after the resolver had cached its username as
\* absent from GitHub
MentionRewritingWitness ==
    /\ Converted("mention")
    /\ users[result.username] = NoUser
    /\ result.value = <<MentionTok(result.username)>>

\* C25: no label value occurs more than once in the label list of a
\* converted issue, also when priority, component, kind or version yield
\* the same text after comma removal and truncation.
LabelsDeduplicated ==
    Applied("labels") =>
        \A j, k \in 1..Len(result.value) :
            result.value[j] = result.value[k] => j = k

====
